---- MODULE Spec2Model ----
(***************************************************************************)
(* The five applier scripts of the repository, each as a state machine    *)
(* over its own outcome lists and output files:                            *)
(*   A_  apply_naukri_jobs.py            (Selenium, keyword loop)          *)
(*   B_  naukri_job_applier.py           (class NaukriJobApplier)          *)
(*   E_  enhanced_naukri_applier.py      (class EnhancedNaukriJobApplier)  *)
(*   T_  naukri_auto_apply.py            (top-level, class NaukriJobApplier)*)
(*   S_  scripts/naukri_auto_apply.py    (Playwright, class NaukriAutoApply)*)
(* One run executes one script (variable script, fixed by Init).  What the *)
(* web site shows for a posting (the page, its buttons, its forms, the     *)
(* exceptions the driver raises) is an input chosen afresh at every step.  *)
(***************************************************************************)
EXTENDS Integers, Sequences, FiniteSets, TLC

\* ------------------------------------------------------------------ bounds
\* postings the site serves in one run (cards of all result pages together)
MaxJobs == 2
\* rows applied_jobs.csv may hold from an earlier run
MaxOldRows == 1
\* largest configured application limit tried
MaxLimit == 2
\* cards one results page shows
MaxCards == 2

Scripts == {"apply_naukri_jobs", "naukri_job_applier", "enhanced_naukri_applier",
            "naukri_auto_apply", "scripts_naukri_auto_apply"}

\* ------------------------------------------------------------------ URLs
\* A URL is its netloc, its path and its query, a sequence of <<key, value>>
\* pairs; id tells postings apart.  The text of a URL is the sequence of these
\* fragments in the order they stand in the string.
Hosts == {"www.naukri.com", "naukri.com", "careers.acme.example"}

Url(i, n, p, q) == [id |-> i, netloc |-> n, path |-> p, query |-> q]

\* two postings on the site and one page on a company site
Urls ==
    { Url(1, "www.naukri.com", "/job-listings-java-developer-12", <<>>),
      Url(2, "naukri.com", "/job-listings-java-developer-12", <<>>),
      Url(3, "careers.acme.example", "/openings/7", <<>>) }

\* the links the result cards of the site carry
Links == Urls

\* "if len(form_fields) > 5", naukri_job_applier.py line 341
B_field_limit == 5

\* "if len(inputs) >= 3", scripts/naukri_auto_apply.py line 329
S_input_limit == 3

\* the numbers of input fields a page shows: none, two, and the values at and
\* next to the two limits
FieldCounts == {0, 2, S_input_limit, B_field_limit, B_field_limit + 1}

Last(s) == s[Len(s)]

VARIABLES
    script,           \* which script this run executes
    pc,               \* where the run is
    served,           \* postings the site has served so far
    last,             \* the most recent posting handled: inputs and result
    \* apply_naukri_jobs.py
    A_applied_count, A_shortlisted, A_SHORTLIST_FILE,
    \* naukri_job_applier.py
    B_applied_jobs, B_shortlisted_jobs, B_failed_jobs,
    B_applications_count, B_page_count, B_max_applications, B_max_pages,
    B_files,
    \* enhanced_naukri_applier.py
    E_applied_jobs, E_shortlisted_jobs, E_failed_applications, E_applied_csv,
    E_jobs, E_page, E_i, E_max_applications_per_run, E_files,
    E_submissions,    \* applications this run has sent off on the site
    \* naukri_auto_apply.py
    T_applied_jobs, T_shortlisted_jobs, T_applied_csv, T_shortlisted_csv,
    T_applications_made, T_max_applications_per_run,
    \* scripts/naukri_auto_apply.py
    S_applied_rows, S_shortlisted_rows, S_visited, S_total_processed, S_max_jobs,
    S_files,
    \* the start of a script
    environ,          \* NAUKRI_EMAIL and NAUKRI_PASSWORD after load_dotenv
    config_json,      \* the file config.json
    driver_started,   \* a browser or driver has been started
    login_attempted,  \* login has been called
    \* run.py
    args,             \* the parsed command line
    requirements,     \* selenium, requests and bs4 can be imported
    launched          \* the commands given to os.system, in order

A_vars == <<A_applied_count, A_shortlisted, A_SHORTLIST_FILE>>
B_lists == <<B_applied_jobs, B_shortlisted_jobs, B_failed_jobs>>
B_vars == <<B_applied_jobs, B_shortlisted_jobs, B_failed_jobs, B_applications_count,
            B_page_count, B_max_applications, B_max_pages, B_files>>

E_lists == <<E_applied_jobs, E_shortlisted_jobs, E_failed_applications, E_applied_csv>>
E_vars == <<E_applied_jobs, E_shortlisted_jobs, E_failed_applications, E_applied_csv,
            E_jobs, E_page, E_i, E_max_applications_per_run, E_files, E_submissions>>

T_lists == <<T_applied_jobs, T_shortlisted_jobs, T_applied_csv, T_shortlisted_csv>>
T_vars == <<T_applied_jobs, T_shortlisted_jobs, T_applied_csv, T_shortlisted_csv,
            T_applications_made, T_max_applications_per_run>>
S_vars == <<S_applied_rows, S_shortlisted_rows, S_visited, S_total_processed, S_max_jobs,
            S_files>>

start_vars == <<environ, config_json, driver_started, login_attempted>>
launch_vars == <<args, requirements, launched>>

\* no posting handled yet
NoCall == [called |-> FALSE]

\* ------------------------------------------------- apply_naukri_jobs.py (A)
\* What the driver does for one card of the results page.
\*   card    job.find_element("a.title") and window.open succeed
\*   apply   find_element(//button[contains(.,'Apply')]) and its click succeed
\*   submit  find_element(Submit ...) and its click succeed
\*   close   driver.close() / switch_to.window succeed
A_Obs == [card : BOOLEAN, apply : BOOLEAN, submit : BOOLEAN, close : BOOLEAN]

A_Init ==
    /\ A_applied_count = 0
    /\ A_shortlisted = <<>>
    /\ A_SHORTLIST_FILE = <<>>      \* the rows this run appends to shortlist.csv

\* the body of "for job in jobs" (lines 73-98) for a card whose link is url
A_search_and_apply(url, o) ==
    /\ script = "apply_naukri_jobs"
    /\ pc = "loop"
    /\ served < MaxJobs
    /\ served' = served + 1
    /\ UNCHANGED A_SHORTLIST_FILE
    /\ IF ~o.card
       THEN \* lines 74-78 are outside every try: the exception leaves
            \* search_and_apply and main, through main's finally
            /\ pc' = "crashed"
            /\ UNCHANGED <<A_applied_count, A_shortlisted>>
            /\ last' = [called |-> TRUE, url |-> url, obs |-> o, ret |-> "raised",
                        clicked |-> FALSE, submitted |-> FALSE,
                        n |-> [applied |-> A_applied_count,
                               shortlisted |-> Len(A_shortlisted), failed |-> 0]]
       ELSE /\ IF o.apply /\ o.submit
               THEN /\ A_applied_count' = A_applied_count + 1
                    /\ UNCHANGED A_shortlisted
               ELSE /\ A_shortlisted' = Append(A_shortlisted, url)
                    /\ UNCHANGED A_applied_count
            /\ pc' = IF o.close THEN "loop" ELSE "crashed"
            /\ last' = [called |-> TRUE, url |-> url, obs |-> o,
                        ret |-> IF ~o.close THEN "raised"
                                ELSE IF o.apply /\ o.submit THEN "applied"
                                ELSE "shortlisted",
                        clicked |-> o.apply, submitted |-> o.apply /\ o.submit,
                        n |-> [applied |-> A_applied_count,
                               shortlisted |-> Len(A_shortlisted), failed |-> 0]]

\* save_shortlist(urls), lines 102-112
A_save_shortlist(urls) ==
    IF urls = <<>> THEN A_SHORTLIST_FILE ELSE A_SHORTLIST_FILE \o urls

\* main, lines 126-128: search_and_apply returned, the shortlist is saved
A_main ==
    /\ script = "apply_naukri_jobs"
    /\ pc = "loop"
    /\ A_SHORTLIST_FILE' = A_save_shortlist(A_shortlisted)
    /\ pc' = "done"
    /\ UNCHANGED <<A_applied_count, A_shortlisted, served, last>>

\* ------------------------------------------------ naukri_job_applier.py (B)
\* What the driver shows for one posting, in the order apply_to_job reads it;
\* a fact the code does not get to read for this posting keeps its default.
\*   exc       "open": lines 213-219 raise; "click": apply_button.click() raises
\*   external  _is_external_application(): an indicator phrase or onclick found
\*   phrase    the body text holds one of additional_indicators
\*   fields    number of //input[@type='text'] | //textarea elements
\*   raises    where the driver raises inside _requires_additional_details:
\*             "body" (reading the body text), "fields" (find_elements), "none"
\*   button    _find_apply_button() finds a displayed, enabled control
\*   popup     _handle_application_popup() returns True
B_Facts == [exc : {"none", "open", "click"}, external : BOOLEAN, phrase : BOOLEAN,
            fields : FieldCounts, raises : {"none", "body", "fields"},
            button : BOOLEAN, popup : BOOLEAN]

\* _requires_additional_details, lines 319-348, as it would be with >= for >
\* at line 341
B_requires_additional_details_from_limit(o) ==
    IF o.raises = "body" THEN FALSE
    ELSE IF o.phrase THEN TRUE
    ELSE IF o.raises = "fields" THEN FALSE
    ELSE o.fields >= B_field_limit

\* _requires_additional_details, lines 319-348; an exception of the driver is
\* caught at line 346 and gives False
B_requires_additional_details(o) ==
    IF o.raises = "body" THEN FALSE
    ELSE IF o.phrase THEN TRUE
    ELSE IF o.raises = "fields" THEN FALSE
    ELSE o.fields > B_field_limit

\* //input[@type='text'] elements a page is tried with, at most
MaxTextInputs == 6

\* _requires_additional_details, lines 323-331
B_additional_indicators ==
    {"answer the following", "additional questions", "questionnaire",
     "screening questions", "please provide", "tell us about", "why do you want"}

\* pieces of body text a page may show
PageTexts == {"Apply now", "Screening Questions", "please provide your notice period",
              "Questionnaires", "tell us"}

\* the indicators that occur in text.lower()
Holds(t) ==
    CASE t = "Screening Questions" -> {"screening questions"}
      [] t = "please provide your notice period" -> {"please provide"}
      [] t = "Questionnaires" -> {"questionnaire"}
      [] OTHER -> {}

\* a detail page: its body text, its text inputs and textareas, and where the
\* driver raises when asked
Pages == [text : SUBSET PageTexts, text_inputs : 0..MaxTextInputs, textareas : 0..1,
          raises : {"none", "body", "fields"}]

\* what lines 333-340 read off the page
B_read_page(page) ==
    [phrase |-> \E t \in page.text : Holds(t) \cap B_additional_indicators # {},
     fields |-> page.text_inputs + page.textareas,
     raises |-> page.raises]

\* the function alone: it is called on a page and answers
B_ask_requires_additional_details ==
    /\ script = "naukri_job_applier"
    /\ pc = "_requires_additional_details"
    /\ last' = [called |-> TRUE, url |-> last.url,
                ret |-> B_requires_additional_details(B_read_page(last.url))]
    /\ pc' = "returned"
    /\ UNCHANGED <<script, served, A_vars, B_vars, E_vars, T_vars, S_vars,
                   start_vars, launch_vars>>

\* apply_to_job gets as far as looking for the apply control
B_reaches_button(o) ==
    o.exc # "open" /\ ~o.external /\ ~B_requires_additional_details(o)

B_Obs ==
    { o \in B_Facts :
        /\ o.exc = "open" => ~o.external
        /\ (o.exc = "open" \/ o.external) => (~o.phrase /\ o.fields = 0)
        /\ o.phrase => o.fields = 0
        /\ (o.exc = "open" \/ o.external) => o.raises = "none"
        /\ o.raises # "none" => o.fields = 0
        /\ o.raises = "fields" => ~o.phrase
        /\ ~B_reaches_button(o) => (~o.button /\ o.exc # "click")
        /\ ~o.button => o.exc # "click"
        /\ (~o.button \/ o.exc = "click") => ~o.popup }

\* apply_to_job as it would be if closing the tab after a successful application
\* raised into the handler of line 277: the job is in applied_jobs and in
\* failed_jobs, and 'failed' is returned
B_apply_to_job_close_raises(job, o) ==
    LET out(r, a, s, f) == [ret |-> r, applied |-> a, shortlisted |-> s, failed |-> f]
        A == B_applied_jobs
        S == B_shortlisted_jobs
        F == B_failed_jobs
    IN  IF o.exc = "open" THEN out("failed", A, S, Append(F, job))
        ELSE IF o.external THEN out("shortlisted", A, Append(S, job), F)
        ELSE IF B_requires_additional_details(o) THEN out("shortlisted", A, Append(S, job), F)
        ELSE IF ~o.button THEN out("failed", A, S, Append(F, job))
        ELSE IF o.exc = "click" THEN out("failed", A, S, Append(F, job))
        ELSE IF o.popup THEN out("failed", Append(A, job), S, Append(F, job))
        ELSE out("failed", A, S, Append(F, job))

\* apply_to_job, lines 207-285: the value returned and the three lists after it
B_apply_to_job(job, o) ==
    LET out(r, a, s, f) == [ret |-> r, applied |-> a, shortlisted |-> s, failed |-> f]
        A == B_applied_jobs
        S == B_shortlisted_jobs
        F == B_failed_jobs
    IN  IF o.exc = "open"
        THEN out("failed", A, S, Append(F, job))
        ELSE IF o.external
        THEN out("shortlisted", A,
                 Append(S, job), F)
        ELSE IF B_requires_additional_details(o)
        THEN out("shortlisted", A,
                 Append(S, job), F)
        ELSE IF ~o.button
        THEN out("failed", A, S, Append(F, job))
        ELSE IF o.exc = "click"
        THEN out("failed", A, S, Append(F, job))
        ELSE IF o.popup
        THEN out("applied", Append(A, job), S, F)
        ELSE out("failed", A, S,
                 Append(F, job))

B_Init ==
    /\ B_applied_jobs = <<>>
    /\ B_shortlisted_jobs = <<>>
    /\ B_failed_jobs = <<>>
    /\ B_applications_count = 0
    /\ B_page_count = 0
    /\ B_files = [applied |-> <<>>, shortlisted |-> <<>>, failed |-> <<>>]
    /\ IF script = "naukri_job_applier"
       THEN /\ B_max_applications \in 0..MaxLimit
            /\ B_max_pages \in 0..MaxLimit
       ELSE /\ B_max_applications = 1
            /\ B_max_pages = 1

\* the while test of line 482 as it would be with <= for <
B_run_while_off_by_one ==
    /\ script = "naukri_job_applier"
    /\ pc = "while"
    /\ pc' = IF B_applications_count <= B_max_applications /\ B_page_count <= B_max_pages
             THEN "for" ELSE "save"
    /\ UNCHANGED <<B_vars, served, last>>

\* run, line 482: the while test; get_job_listings follows when it holds
B_run_while ==
    /\ script = "naukri_job_applier"
    /\ pc = "while"
    /\ pc' = IF B_applications_count < B_max_applications /\ B_page_count < B_max_pages
             THEN "for" ELSE "save"
    /\ UNCHANGED <<B_vars, served, last>>

\* run, lines 487-501: one job of the page (time.sleep of line 501 returns)
B_run_for(job, o) ==
    /\ script = "naukri_job_applier"
    /\ pc = "for"
    /\ served < MaxJobs
    /\ served' = served + 1
    /\ UNCHANGED <<B_page_count, B_max_applications, B_max_pages, B_files>>
    /\ IF B_applications_count >= B_max_applications
       THEN \* line 488: break
            /\ pc' = "nav"
            /\ UNCHANGED <<B_lists, B_applications_count, last>>
       ELSE IF \E i \in 1..Len(B_applied_jobs) : B_applied_jobs[i].id = job.id
       THEN \* line 492: continue
            /\ pc' = "for"
            /\ last' = [called |-> FALSE, url |-> job, ret |-> "skipped"]
            /\ UNCHANGED <<B_lists, B_applications_count>>
       ELSE LET r == B_apply_to_job(job, o)
            IN  /\ B_applied_jobs' = r.applied
                /\ B_shortlisted_jobs' = r.shortlisted
                /\ B_failed_jobs' = r.failed
                /\ B_applications_count' =
                       IF r.ret = "applied" THEN B_applications_count + 1
                       ELSE B_applications_count
                /\ last' = [called |-> TRUE, url |-> job, obs |-> o, ret |-> r.ret,
                            clicked |-> B_reaches_button(o) /\ o.button,
                            submitted |-> r.ret = "applied",
                            n |-> [applied |-> Len(B_applied_jobs),
                                   shortlisted |-> Len(B_shortlisted_jobs),
                                   failed |-> Len(B_failed_jobs)]]
                /\ pc' = "for"

\* run, line 487: the page has no more cards
B_run_for_end ==
    /\ script = "naukri_job_applier"
    /\ pc = "for"
    /\ pc' = "nav"
    /\ UNCHANGED <<B_vars, served, last>>

\* run, lines 504-507: navigate_to_next_page() returned found
B_run_next_page(found) ==
    /\ script = "naukri_job_applier"
    /\ pc = "nav"
    /\ IF found
       THEN /\ B_page_count' = B_page_count + 1
            /\ pc' = "while"
       ELSE /\ UNCHANGED B_page_count
            /\ pc' = "save"
    /\ UNCHANGED <<B_lists, B_applications_count, B_max_applications, B_max_pages,
                   B_files, served, last>>

\* save_results, lines 435-466, called at line 512
B_save_results ==
    /\ script = "naukri_job_applier"
    /\ pc = "save"
    /\ B_files' = [applied |-> B_applied_jobs, shortlisted |-> B_shortlisted_jobs,
                   failed |-> B_failed_jobs]
    /\ pc' = "done"
    /\ UNCHANGED <<B_lists, B_applications_count, B_page_count, B_max_applications,
                   B_max_pages, served, last>>

\* the cards get_job_listings returns: a posting of the site and one whose
\* link leads to a company site
B_Jobs == {u \in Urls : u.netloc # "naukri.com"}

B_Next ==
    \/ B_run_while
    \/ \E job \in B_Jobs, o \in B_Obs : B_run_for(job, o)
    \/ B_run_for_end
    \/ \E found \in BOOLEAN : B_run_next_page(found)
    \/ B_save_results

\* ------------------------------------------- enhanced_naukri_applier.py (E)
\* the module's import statements, lines 7-25: os is not among them, so every
\* os.makedirs(...) in the module raises NameError
E_os_imported == FALSE

\* pairs of a query string
MaxParams == 2

\* the netlocs, paths and query strings tried: the three of Urls, a netloc in
\* capitals, the host of an applicant tracking system, and a bracketed host
\* that is not closed
Netlocs == Hosts \cup {"WWW.NAUKRI.COM", "jobs.lever.co", "[::1"}

Paths == {"/job-listings-java-developer-12", "/openings/7",
          "/job-listings-clever-solutions-7", "/careers/company/9",
          "/apply/taleo.net/55"}

QueryPairs == {"redirect", "external", "src"} \X {"", "1"}

Queries == UNION {[1..n -> QueryPairs] : n \in 0..MaxParams}

AllUrls == {Url(0, n, p, q) : n \in Netlocs, p \in Paths, q \in Queries}

\* the words of the patterns and the domains of external_domains that a
\* fragment of a URL holds as substrings, capitals aside; a two-word pattern
\* stands for a fragment that holds both words in the pattern's order
Marks(f) ==
    CASE f = "careers.acme.example" -> {"careers"}
      [] f = "jobs.lever.co" -> {"jobs", "lever", "lever.co"}
      [] f = "/job-listings-clever-solutions-7" -> {"lever"}
      [] f = "/careers/company/9" -> {"careers", "company", "careers.*company"}
      [] f = "/apply/taleo.net/55" -> {"apply", "taleo.net"}
      [] f = "redirect" -> {"redirect"}
      [] f = "external" -> {"external"}
      [] OTHER -> {}

\* the string of the URL, fragment by fragment
Text(url) ==
    <<url.netloc, url.path>>
        \o [k \in 1..(2 * Len(url.query)) |->
               IF k % 2 = 1 THEN url.query[(k + 1) \div 2][1]
               ELSE url.query[k \div 2][2]]

\* __init__, lines 68-79
external_patterns ==
    << [name |-> "redirect.*external", a |-> "redirect", b |-> "external"],
       [name |-> "apply.*external", a |-> "apply", b |-> "external"],
       [name |-> "careers.*company", a |-> "careers", b |-> "company"],
       [name |-> "jobs.*company", a |-> "jobs", b |-> "company"],
       [name |-> "workday", a |-> "workday", b |-> ""],
       [name |-> "greenhouse", a |-> "greenhouse", b |-> ""],
       [name |-> "bamboohr", a |-> "bamboohr", b |-> ""],
       [name |-> "lever", a |-> "lever", b |-> ""],
       [name |-> "ashby", a |-> "ashby", b |-> ""],
       [name |-> "ats.*apply", a |-> "ats", b |-> "apply"] >>

\* __init__, lines 82-86
external_domains ==
    {"workday.com", "greenhouse.io", "bamboohr.com", "lever.co", "ashbyhq.com",
     "smartrecruiters.com", "jobvite.com", "icims.com", "taleo.net",
     "successfactors.com"}

\* re.search(pattern, job_url, re.IGNORECASE)
re_search(pat, url) ==
    LET t == Text(url)
    IN  IF pat.b = ""
        THEN \E i \in 1..Len(t) : pat.a \in Marks(t[i])
        ELSE \/ \E i \in 1..Len(t) : pat.name \in Marks(t[i])
             \/ \E i, j \in 1..Len(t) :
                   i < j /\ pat.a \in Marks(t[i]) /\ pat.b \in Marks(t[j])

\* urlparse(job_url) raises ValueError ("Invalid IPv6 URL")
urlparse_raises(url) == url.netloc = "[::1"

\* parsed_url.netloc.lower()
lower(n) == IF n = "WWW.NAUKRI.COM" THEN "www.naukri.com" ELSE n

\* parse_qs(parsed_url.query): the keys; a pair with a blank value is dropped
parse_qs(q) == {q[i][1] : i \in {k \in 1..Len(q) : q[k][2] # ""}}

\* is_external_application, lines 423-452: <<is_external, the rule of the
\* reason, the pattern, domain or message the reason ends with>>
E_is_external_application(url) ==
    LET hits == {k \in 1..Len(external_patterns) : re_search(external_patterns[k], url)}
        first == CHOOSE k \in hits : \A h \in hits : k <= h
        ats == {d \in external_domains :
                   \E i \in 1..Len(Text(url)) : d \in Marks(Text(url)[i])}
    IN  IF hits # {} THEN <<TRUE, "URL pattern match", external_patterns[first].name>>
        ELSE IF urlparse_raises(url) THEN <<FALSE, "Error", "Invalid IPv6 URL">>
        ELSE IF lower(url.netloc) \notin {"naukri.com", "www.naukri.com"}
        THEN <<TRUE, "External domain", lower(url.netloc)>>
        ELSE IF ats # {} THEN <<TRUE, "External ATS domain", CHOOSE d \in ats : TRUE>>
        ELSE IF "redirect" \in parse_qs(url.query) \/ "external" \in parse_qs(url.query)
        THEN <<TRUE, "Redirect parameter detected", "">>
        ELSE <<FALSE, "", "">>

\* the function alone: it is asked about a URL and answers
E_ask_is_external_application ==
    /\ script = "enhanced_naukri_applier"
    /\ pc = "is_external_application"
    /\ last' = [called |-> TRUE, url |-> last.url,
                ret |-> E_is_external_application(last.url)]
    /\ pc' = "returned"
    /\ UNCHANGED <<script, served, A_vars, B_vars, E_vars, T_vars, S_vars,
                   start_vars, launch_vars>>

\* extract_job_details, lines 339-395: the JobDetails of a card
E_extract_job_details(url) ==
    [url |-> url,
     is_external |-> E_is_external_application(url)[1],
     external_reason |-> E_is_external_application(url)[2],
     application_status |-> "pending"]

\* load_applied_jobs, lines 97-109: column 0 of every row after the header
E_load_applied_jobs(csv) == {csv[i] : i \in 1..Len(csv)}

\* save_applied_job, lines 111-123: the file after the call, and whether the
\* call raised (os.makedirs is its first statement)
E_save_applied_job(csv, job) ==
    IF E_os_imported
    THEN [raised |-> FALSE, csv |-> Append(csv, job.url)]
    ELSE [raised |-> TRUE, csv |-> csv]

\* What the driver shows for one posting, in the order apply_to_job reads it;
\* a fact the code does not get to read for this posting keeps its default.
\*   open     window.open / switch_to.window succeed
\*   loaded   driver.current_url once the posting has loaded
\*   button   find_apply_button() finds a displayed, enabled control
\*   click    apply_button.click() succeeds (at the second try at the latest)
\*   after    driver.current_url after the click
\*   fields   input fields of the application form shown (0: no form)
E_Facts == [open : BOOLEAN, loaded : Urls, button : BOOLEAN, click : BOOLEAN,
            after : Urls, fields : FieldCounts]

\* apply_to_job gets as far as looking for the apply control
E_reaches_button(job, o) ==
    o.open /\ ~job.is_external /\ ~E_is_external_application(o.loaded)[1]

E_Obs(job) ==
    { o \in E_Facts :
        /\ (~o.open \/ job.is_external) => o.loaded = job.url
        /\ ~E_reaches_button(job, o) => ~o.button
        /\ ~o.button => ~o.click
        /\ ~o.click => o.after = o.loaded
        /\ (~o.click \/ E_is_external_application(o.after)[1]) => o.fields = 0 }

\* handle_application_form, lines 574-616: False on an external redirect, True
\* otherwise (with no form, after the first form filled, and after all forms)
E_handle_application_form(o) ==
    IF E_is_external_application(o.after)[1] THEN FALSE ELSE TRUE

\* apply_to_job, lines 465-544: the value returned and the state after it
E_apply_to_job(job, o) ==
    LET out(r, a, s, f, c) ==
            [ret |-> r, applied |-> a, shortlisted |-> s, failed |-> f, csv |-> c]
        A == E_applied_jobs
        S == E_shortlisted_jobs
        F == E_failed_applications
        C == E_applied_csv
        status(j, st) == [j EXCEPT !.application_status = st]
    IN  IF ~o.open
        THEN out(FALSE, A, S, Append(F, status(job, "error")), C)
        ELSE IF job.is_external
        THEN out(FALSE, A, Append(S, job), F, C)
        ELSE IF E_is_external_application(o.loaded)[1]
        THEN out(FALSE, A,
                 Append(S, [job EXCEPT !.is_external = TRUE,
                                       !.external_reason =
                                            E_is_external_application(o.loaded)[2]]),
                 F, C)
        ELSE IF ~o.button
        THEN out(FALSE, A, S, Append(F, job), C)
        ELSE IF ~o.click
        THEN out(FALSE, A, S, Append(F, status(job, "error")), C)
        ELSE IF E_handle_application_form(o)
        THEN LET saved == E_save_applied_job(C, status(job, "applied"))
             IN  IF saved.raised
                 THEN \* lines 522-523 then 532-536: the URL is in applied_jobs,
                      \* the NameError is caught, the job is filed as failed
                      out(FALSE, A \cup {job.url}, S, Append(F, status(job, "error")),
                          saved.csv)
                 ELSE out(TRUE, A \cup {job.url}, S, F, saved.csv)
        ELSE out(FALSE, A, S, Append(F, status(job, "failed")), C)

\* search_jobs, line 239
E_max_pages == 3

E_Init ==
    /\ E_applied_csv \in UNION {[1..n -> Links] : n \in 0..MaxOldRows}
    /\ E_applied_jobs = E_load_applied_jobs(E_applied_csv)
    /\ E_shortlisted_jobs = <<>>
    /\ E_failed_applications = <<>>
    /\ E_jobs = <<>>
    /\ E_page = 1
    /\ E_i = 0
    /\ E_submissions = 0
    /\ E_files = [shortlisted |-> <<>>, failed |-> <<>>]
    /\ E_max_applications_per_run \in 1..MaxLimit
    /\ script # "enhanced_naukri_applier" =>
          /\ E_applied_csv = <<>>
          /\ E_max_applications_per_run = 1

\* search_jobs, lines 241-260: one round of the while loop over a results page
\* showing the cards page_jobs, and, when the loop ends, the filter on
\* applied_jobs.  next_ok: go_to_next_page() returned True
E_search_jobs(page_jobs, next_ok) ==
    /\ script = "enhanced_naukri_applier"
    /\ pc = "search"
    /\ served + Len(page_jobs) <= MaxJobs
    /\ LET filter(js) == SelectSeq(js, LAMBDA j : j.url \notin E_applied_jobs)
           scraped == E_jobs \o [k \in 1..Len(page_jobs) |->
                                    E_extract_job_details(page_jobs[k])]
       IN  IF E_page <= E_max_pages /\ Len(E_jobs) < E_max_applications_per_run
           THEN /\ served' = served + Len(page_jobs)
                /\ IF E_page < E_max_pages /\ next_ok
                   THEN /\ E_page' = E_page + 1
                        /\ E_jobs' = scraped
                        /\ pc' = "search"
                   ELSE /\ UNCHANGED E_page
                        /\ E_jobs' = filter(scraped)
                        /\ pc' = IF filter(scraped) = <<>> THEN "done" ELSE "run"
           ELSE /\ page_jobs = <<>>
                /\ UNCHANGED <<served, E_page>>
                /\ E_jobs' = filter(E_jobs)
                /\ pc' = IF filter(E_jobs) = <<>> THEN "done" ELSE "run"
    /\ UNCHANGED <<E_lists, E_i, E_max_applications_per_run, E_files, E_submissions, last>>

\* run, lines 856-865: one job of the list search_jobs returned
E_run(o) ==
    /\ script = "enhanced_naukri_applier"
    /\ pc = "run"
    /\ E_i < Len(E_jobs)
    /\ LET job == E_jobs[E_i + 1]
           r == E_apply_to_job(job, o)
       IN  /\ o \in E_Obs(job)
           /\ E_applied_jobs' = r.applied
           /\ E_shortlisted_jobs' = r.shortlisted
           /\ E_failed_applications' = r.failed
           /\ E_applied_csv' = r.csv
           /\ last' = [called |-> TRUE, url |-> job.url, obs |-> o, ret |-> r.ret,
                       clicked |-> o.click,
                       submitted |-> o.click /\ E_handle_application_form(o),
                       was_applied |-> job.url \in E_applied_jobs,
                       n |-> [applied |-> Len(E_applied_csv),
                              shortlisted |-> Len(E_shortlisted_jobs),
                              failed |-> Len(E_failed_applications)]]
    /\ E_i' = E_i + 1
    /\ E_submissions' = IF o.click /\ E_handle_application_form(o)
                        THEN E_submissions + 1 ELSE E_submissions
    /\ UNCHANGED <<E_jobs, E_page, E_max_applications_per_run, E_files, served, pc>>

\* save_shortlisted_jobs, lines 765-788: the file written, <<>> when none is;
\* raised when the call raises
E_save_shortlisted_jobs ==
    IF E_shortlisted_jobs = <<>> THEN [raised |-> FALSE, file |-> <<>>]
    ELSE IF ~E_os_imported THEN [raised |-> TRUE, file |-> <<>>]
    ELSE [raised |-> FALSE, file |-> E_shortlisted_jobs]

\* save_failed_applications, lines 790-812
E_save_failed_applications ==
    IF E_failed_applications = <<>> THEN [raised |-> FALSE, file |-> <<>>]
    ELSE IF ~E_os_imported THEN [raised |-> TRUE, file |-> <<>>]
    ELSE [raised |-> FALSE, file |-> E_failed_applications]

\* run, lines 867-880: after the loop the results are saved; an exception of
\* the first save skips the second (line 876)
E_run_save ==
    /\ script = "enhanced_naukri_applier"
    /\ pc = "run"
    /\ E_i = Len(E_jobs)
    /\ E_files' = [shortlisted |-> E_save_shortlisted_jobs.file,
                   failed |-> IF E_save_shortlisted_jobs.raised THEN <<>>
                              ELSE E_save_failed_applications.file]
    /\ pc' = "done"
    /\ UNCHANGED <<E_lists, E_jobs, E_page, E_i, E_max_applications_per_run,
                   E_submissions, served, last>>

E_Next ==
    \/ \E page_jobs \in UNION {[1..n -> Urls] : n \in 0..MaxCards}, next_ok \in BOOLEAN :
            E_search_jobs(page_jobs, next_ok)
    \/ \E o \in E_Facts : E_run(o)
    \/ E_run_save

\* --------------------------------------------------- naukri_auto_apply.py (T)
\* The last path segment of a job URL, which extract_job_info takes as job_id
\* (line 207): two all-digit ones, one with a leading zero, and a slug.
T_Segments == {"12", "012", "java-dev-12"}

\* extract_job_info, lines 198-238: the job_id of a job URL with last segment
\* seg.  (When driver.get raises, line 242 takes the whole URL as the id: one
\* more id that is not all digits, like the slug.)
T_extract_job_info(seg) == seg

T_all_digits(id) == id \in {"12", "012"}

\* str(int(id)) of an all-digit id
T_int_str(id) == IF id = "012" THEN "12" ELSE id

\* load_applied_jobs, lines 91-100: read_csv types the job_id column int64 when
\* every row is all digits, and astype(str) then prints the numbers
T_load_applied_jobs(csv) ==
    IF csv # <<>> /\ \A i \in 1..Len(csv) : T_all_digits(csv[i])
    THEN {T_int_str(csv[i]) : i \in 1..Len(csv)}
    ELSE {csv[i] : i \in 1..Len(csv)}

\* What the driver shows for one posting, in the order apply_to_job reads it;
\* a fact the code does not get to read for this posting keeps its default.
\*   external  check_if_external_application()
\*   phrase    the page source holds one of question_indicators
\*   fields    number of textarea / text inputs other than email and phone
\*   control   what the selector loop of lines 341-347 leaves in apply_button:
\*             "none", "hidden" (found, not displayed or not enabled), "usable"
\*   click     execute_script("arguments[0].click();") succeeds
\*   success   the page source holds one of success_indicators
T_Facts == [external : BOOLEAN, phrase : BOOLEAN, fields : FieldCounts,
            control : {"none", "hidden", "usable"}, click : BOOLEAN, success : BOOLEAN]

\* has_application_questions, lines 277-300
T_has_application_questions(o) ==
    o.phrase \/ o.fields > 0

\* apply_to_job gets as far as looking for the apply control
T_reaches_button(o) ==
    ~o.external /\ ~T_has_application_questions(o)

T_Obs ==
    { o \in T_Facts :
        /\ o.external => (~o.phrase /\ o.fields = 0)
        /\ o.phrase => o.fields = 0
        /\ ~T_reaches_button(o) => o.control = "none"
        /\ o.control = "none" => ~o.click
        /\ ~o.click => ~o.success }

\* apply_to_job without the test of line 308
T_apply_to_job_no_skip(job_id, o) ==
    LET out(r, k, a, s, ac, sc) ==
            [ret |-> r, clicked |-> k, applied |-> a, shortlisted |-> s,
             applied_csv |-> ac, shortlisted_csv |-> sc]
        shortlist(k) ==
            out(FALSE, k, T_applied_jobs, Append(T_shortlisted_jobs, job_id),
                T_applied_csv, Append(T_shortlisted_csv, job_id))
    IN  IF o.external THEN shortlist(FALSE)
        ELSE IF T_has_application_questions(o) THEN shortlist(FALSE)
        ELSE IF o.control = "none" THEN shortlist(FALSE)
        ELSE IF ~o.click THEN shortlist(FALSE)
        ELSE IF o.success
        THEN out(TRUE, TRUE, T_applied_jobs \cup {job_id}, T_shortlisted_jobs,
                 Append(T_applied_csv, job_id), T_shortlisted_csv)
        ELSE shortlist(TRUE)

\* apply_to_job, lines 302-391: the value returned, whether the apply control
\* was clicked, and the state after it
T_apply_to_job(job_id, o) ==
    LET out(r, k, a, s, ac, sc) ==
            [ret |-> r, clicked |-> k, applied |-> a, shortlisted |-> s,
             applied_csv |-> ac, shortlisted_csv |-> sc]
        \* save_shortlisted_job and shortlisted_jobs.append, e.g. lines 316-320
        shortlist(k) ==
            out(FALSE, k, T_applied_jobs, Append(T_shortlisted_jobs, job_id),
                T_applied_csv, Append(T_shortlisted_csv, job_id))
    IN  IF job_id \in T_applied_jobs
        THEN out(FALSE, FALSE, T_applied_jobs, T_shortlisted_jobs, T_applied_csv,
                 T_shortlisted_csv)
        ELSE IF o.external THEN shortlist(FALSE)
        ELSE IF T_has_application_questions(o) THEN shortlist(FALSE)
        ELSE IF o.control = "none" THEN shortlist(FALSE)
        ELSE IF ~o.click THEN shortlist(FALSE)
        ELSE IF o.success
        THEN out(TRUE, TRUE, T_applied_jobs \cup {job_id}, T_shortlisted_jobs,
                 Append(T_applied_csv, job_id), T_shortlisted_csv)
        ELSE shortlist(TRUE)

T_Init ==
    /\ T_applied_csv \in UNION {[1..n -> T_Segments] : n \in 0..MaxOldRows}
    /\ T_applied_jobs = T_load_applied_jobs(T_applied_csv)
    /\ T_shortlisted_jobs = <<>>
    /\ T_shortlisted_csv = <<>>       \* the rows this run appends
    /\ T_applications_made = 0
    /\ T_max_applications_per_run \in 0..MaxLimit
    /\ script # "naukri_auto_apply" =>
          /\ T_applied_csv = <<>>
          /\ T_max_applications_per_run = 1

\* run, lines 417-429: one job URL of a search result
T_run(seg, o) ==
    /\ script = "naukri_auto_apply"
    /\ pc = "run"
    /\ served < MaxJobs
    /\ T_applications_made < T_max_applications_per_run
    /\ served' = served + 1
    /\ LET job_id == T_extract_job_info(seg)
           r == T_apply_to_job(job_id, o)
       IN  /\ T_applied_jobs' = r.applied
           /\ T_shortlisted_jobs' = r.shortlisted
           /\ T_applied_csv' = r.applied_csv
           /\ T_shortlisted_csv' = r.shortlisted_csv
           /\ T_applications_made' =
                  IF r.ret THEN T_applications_made + 1 ELSE T_applications_made
           /\ last' = [called |-> TRUE, url |-> job_id, obs |-> o, ret |-> r.ret,
                       clicked |-> r.clicked, submitted |-> r.clicked,
                       was_applied |-> job_id \in T_applied_jobs,
                       n |-> [applied |-> Len(T_applied_csv),
                              shortlisted |-> Len(T_shortlisted_csv), failed |-> 0]]
    /\ UNCHANGED <<T_max_applications_per_run, pc>>

\* run, lines 404-413 and 431: the loops end
T_run_end ==
    /\ script = "naukri_auto_apply"
    /\ pc = "run"
    /\ pc' = "done"
    /\ UNCHANGED <<T_vars, served, last>>

T_Next ==
    \/ \E seg \in T_Segments, o \in T_Obs : T_run(seg, o)
    \/ T_run_end

\* ------------------------------------------- scripts/naukri_auto_apply.py (S)
\* What the browser shows for one card, in the order the code reads it;
\* a fact the code does not get to read for this card keeps its default.
\*   page      context.new_page() returns
\*   goto      one of the two detail.goto(link) calls succeeds
\*   query     page.query_selector_all(sel) returns
\*   buttons   the Apply candidates in order: "company" (its text names the
\*             company site), "stuck" (click raises), "ok" (click succeeds)
\*   external  after the click a page not on naukri.com is open
\*   inputs    number of form input/select/textarea elements after the click
\*   close     detail.close() returns
S_Buttons == { <<>>, <<"company">>, <<"stuck">>, <<"ok">>, <<"company", "stuck">>,
               <<"company", "ok">>, <<"stuck", "ok">> }

S_Facts == [page : BOOLEAN, goto : BOOLEAN, query : BOOLEAN, buttons : S_Buttons,
            external : BOOLEAN, inputs : FieldCounts, close : BOOLEAN]

\* _detect_external_or_detailed_apply, lines 316-333: the reason, "" when none
S_detect_external_or_detailed_apply(o) ==
    IF o.external THEN "External apply (company site)"
    ELSE IF o.inputs >= S_input_limit THEN "Detailed form requires manual entry"
    ELSE ""

\* a candidate is clicked with success
S_clicks(o) == \E k \in 1..Len(o.buttons) : o.buttons[k] = "ok"

S_Obs ==
    { o \in S_Facts :
        /\ ~o.page => (~o.goto /\ ~o.close)
        /\ ~o.goto => ~o.query
        /\ ~o.query => o.buttons = <<>>
        /\ \A k \in 1..Len(o.buttons) : o.buttons[k] = "ok" => k = Len(o.buttons)
        /\ ~S_clicks(o) => (~o.external /\ o.inputs = 0)
        /\ o.external => o.inputs = 0 }

\* _attempt_apply_on_detail, lines 335-396: the rows after the call
S_attempt_apply_on_detail(link, o) ==
    LET out(a, s) == [applied |-> a, shortlisted |-> s]
        reason == S_detect_external_or_detailed_apply(o)
    IN  IF S_clicks(o)
        THEN IF reason # ""
             THEN out(S_applied_rows,
                      Append(S_shortlisted_rows, link))
             ELSE out(Append(S_applied_rows, link),
                      S_shortlisted_rows)
        ELSE out(S_applied_rows,
                 Append(S_shortlisted_rows, link))

\* the test of line 464
S_reached_max_jobs(applied, shortlisted) ==
    0 < S_max_jobs /\ S_max_jobs <= Len(applied) + Len(shortlisted)

S_Init ==
    /\ S_applied_rows = <<>>
    /\ S_shortlisted_rows = <<>>
    /\ S_visited = {}
    /\ S_total_processed = 0
    /\ S_files = [applied |-> <<>>, shortlist |-> <<>>]
    /\ S_max_jobs \in 0..MaxLimit
    /\ script # "scripts_naukri_auto_apply" => S_max_jobs = 0

\* search_and_apply, lines 420-466: one card of the query's result page
S_search_and_apply(link, o) ==
    /\ script = "scripts_naukri_auto_apply"
    /\ pc = "cards"
    /\ served < MaxJobs
    /\ served' = served + 1
    /\ UNCHANGED <<S_max_jobs, S_files>>
    /\ IF link \in S_visited
       THEN \* line 422: continue
            /\ last' = [called |-> FALSE, url |-> link, ret |-> "skipped"]
            /\ UNCHANGED <<S_applied_rows, S_shortlisted_rows, S_visited,
                           S_total_processed, pc>>
       ELSE /\ S_visited' = S_visited \cup {link}
            /\ S_total_processed' = S_total_processed + 1
            /\ LET r == IF ~o.page
                        THEN [applied |-> S_applied_rows, shortlisted |-> S_shortlisted_rows]
                        ELSE IF ~o.goto
                        THEN [applied |-> S_applied_rows,
                              shortlisted |->
                                 Append(S_shortlisted_rows, link)]
                        ELSE IF ~o.query
                        THEN [applied |-> S_applied_rows,
                              shortlisted |->
                                 Append(S_shortlisted_rows, link)]
                        ELSE S_attempt_apply_on_detail(link, o)
               IN  /\ S_applied_rows' = r.applied
                   /\ S_shortlisted_rows' = r.shortlisted
                   /\ pc' = IF ~o.page \/ ~o.close THEN "crashed"
                            ELSE IF ~o.goto THEN "cards"
                            ELSE IF S_reached_max_jobs(r.applied, r.shortlisted) THEN "save"
                            ELSE "cards"
                   /\ last' = [called |-> TRUE, url |-> link, obs |-> o,
                               ret |-> IF ~o.page \/ ~o.close THEN "raised"
                                       ELSE IF Len(r.applied) > Len(S_applied_rows)
                                       THEN "applied" ELSE "shortlisted",
                               clicked |-> S_clicks(o),
                               submitted |-> Len(r.applied) > Len(S_applied_rows),
                               n |-> [applied |-> Len(S_applied_rows),
                                      shortlisted |-> Len(S_shortlisted_rows),
                                      failed |-> 0]]

\* search_and_apply, lines 406-409 and 468: the cards of a query are done;
\* more: there is another query; opened: its _open_search returns
S_next_query(more, opened) ==
    /\ script = "scripts_naukri_auto_apply"
    /\ pc = "cards"
    /\ pc' = IF ~more THEN "save" ELSE IF opened THEN "cards" ELSE "crashed"
    /\ more \/ opened
    /\ pc' # pc
    /\ UNCHANGED <<S_vars, served, last>>

\* save_outputs, lines 470-476, called at line 551
S_save_outputs ==
    /\ script = "scripts_naukri_auto_apply"
    /\ pc = "save"
    /\ S_files' = [applied |-> S_applied_rows, shortlist |-> S_shortlisted_rows]
    /\ pc' = "done"
    /\ UNCHANGED <<S_applied_rows, S_shortlisted_rows, S_visited, S_total_processed,
                   S_max_jobs, served, last>>

S_Next ==
    \/ \E link \in Links, o \in S_Obs : S_search_and_apply(link, o)
    \/ \E more, opened \in BOOLEAN : S_next_query(more, opened)
    \/ S_save_outputs

\* ------------------------------------------------ the start of a script
\* What os.getenv gives for a variable: None ("unset"), the empty string, or a
\* value.
EnvValues == {"unset", "", "set"}

Environs == [NAUKRI_EMAIL : EnvValues, NAUKRI_PASSWORD : EnvValues]

\* config.json: no such file, a file json.load rejects, JSON that is not an
\* object, or an object whose 'email' and 'password' are missing, empty or set
\* (the placeholder address setup.py suggests is one set value)
ConfigFiles ==
    { [kind |-> k, email |-> "missing", password |-> "missing"] :
         k \in {"absent", "unparsable", "not_object"} }
    \cup { [kind |-> "object", email |-> e, password |-> w] :
              e \in {"missing", "", "your_email@example.com", "set"},
              w \in {"missing", "", "set"} }

\* Python's "not v" for the values above
falsy(v) == v \in {"unset", "missing", ""}

\* everything the applier loops work on
run_vars == <<served, last, A_vars, B_vars, E_vars, T_vars, S_vars>>

\* apply_naukri_jobs.py main, lines 116-123: the environment test, then
\* init_driver
A_main_env ==
    /\ script = "apply_naukri_jobs"
    /\ pc = "boot"
    /\ IF falsy(environ.NAUKRI_EMAIL) \/ falsy(environ.NAUKRI_PASSWORD)
       THEN /\ pc' = "exit 1"
            /\ UNCHANGED driver_started
       ELSE /\ pc' = "driver"
            /\ driver_started' = TRUE
    /\ UNCHANGED <<script, environ, config_json, login_attempted, run_vars, launch_vars>>

\* apply_naukri_jobs.py main, line 125
A_main_login ==
    /\ script = "apply_naukri_jobs"
    /\ pc = "driver"
    /\ login_attempted' = TRUE
    /\ pc' = "login"
    /\ UNCHANGED <<script, environ, config_json, driver_started, run_vars, launch_vars>>

\* naukri_auto_apply.py load_config, lines 50-71, as it would be with the test
\* of line 70 made on the environment values, before config.json is merged
T_load_config_env_only(env, file) ==
    IF falsy(env.NAUKRI_EMAIL) \/ falsy(env.NAUKRI_PASSWORD)
    THEN [raised |-> TRUE, email |-> env.NAUKRI_EMAIL, password |-> env.NAUKRI_PASSWORD]
    ELSE IF file.kind = "unparsable"
    THEN [raised |-> TRUE, email |-> env.NAUKRI_EMAIL, password |-> env.NAUKRI_PASSWORD]
    ELSE [raised |-> FALSE,
          email |-> IF file.kind = "object" /\ file.email # "missing"
                    THEN file.email ELSE env.NAUKRI_EMAIL,
          password |-> IF file.kind = "object" /\ file.password # "missing"
                       THEN file.password ELSE env.NAUKRI_PASSWORD]

\* naukri_auto_apply.py load_config, lines 50-71: the email and password of
\* self.config and whether the call raises (json.JSONDecodeError of line 67 is a
\* ValueError, as is the error of line 71)
T_load_config(env, file) ==
    LET email == IF file.kind = "object" /\ file.email # "missing"
                 THEN file.email ELSE env.NAUKRI_EMAIL
        password == IF file.kind = "object" /\ file.password # "missing"
                    THEN file.password ELSE env.NAUKRI_PASSWORD
    IN  [raised |-> file.kind = "unparsable" \/ falsy(email) \/ falsy(password),
         email |-> email, password |-> password]

\* naukri_auto_apply.py __init__, lines 31-36: load_config, then setup_driver
T_init ==
    /\ script = "naukri_auto_apply"
    /\ pc = "boot"
    /\ IF T_load_config(environ, config_json).raised
       THEN /\ pc' = "ValueError"
            /\ UNCHANGED driver_started
       ELSE /\ pc' = "driver"
            /\ driver_started' = TRUE
    /\ UNCHANGED <<script, environ, config_json, login_attempted, run_vars, launch_vars>>

\* naukri_auto_apply.py run, line 399
T_run_login ==
    /\ script = "naukri_auto_apply"
    /\ pc = "driver"
    /\ login_attempted' = TRUE
    /\ pc' = "login"
    /\ UNCHANGED <<script, environ, config_json, driver_started, run_vars, launch_vars>>

\* scripts/naukri_auto_apply.py env, lines 22-24
S_env(v) == IF v = "" THEN "unset" ELSE v

\* scripts/naukri_auto_apply.py main, lines 513-530: the environment test, then
\* the browser launch
S_main_env ==
    /\ script = "scripts_naukri_auto_apply"
    /\ pc = "boot"
    /\ IF falsy(S_env(environ.NAUKRI_EMAIL)) \/ falsy(S_env(environ.NAUKRI_PASSWORD))
       THEN /\ pc' = "return 2"
            /\ UNCHANGED driver_started
       ELSE /\ pc' = "driver"
            /\ driver_started' = TRUE
    /\ UNCHANGED <<script, environ, config_json, login_attempted, run_vars, launch_vars>>

\* scripts/naukri_auto_apply.py main, line 548
S_main_login ==
    /\ script = "scripts_naukri_auto_apply"
    /\ pc = "driver"
    /\ login_attempted' = TRUE
    /\ pc' = "login"
    /\ UNCHANGED <<script, environ, config_json, driver_started, run_vars, launch_vars>>

\* the state of the start variables once a script is in its applier loop
Started ==
    /\ environ = [NAUKRI_EMAIL |-> "set", NAUKRI_PASSWORD |-> "set"]
    /\ config_json = [kind |-> "absent", email |-> "missing", password |-> "missing"]
    /\ driver_started = TRUE
    /\ login_attempted = TRUE

\* run.py is not in play
NotLaunched ==
    /\ args = [setup |-> FALSE, version |-> "enhanced"]
    /\ requirements = TRUE
    /\ launched = <<>>

\* ------------------------------------------------------------- run.py
Args == [setup : BOOLEAN, version : {"basic", "enhanced"}]

\* check_config, lines 23-49, without the test of lines 43-45
R_check_config_any_email(file) ==
    /\ file.kind = "object"
    /\ ~falsy(file.email)
    /\ ~falsy(file.password)

\* check_config, lines 23-49.  JSON that is not an object gives False: either
\* the "in" test of line 39 fails or the subscript raises into line 48.
R_check_config(file) ==
    /\ file.kind \notin {"absent", "unparsable"}
    /\ file.kind = "object"
    /\ ~falsy(file.email)
    /\ ~falsy(file.password)
    /\ file.email # "your_email@example.com"

\* main, lines 66-77: --setup, then the two checks
R_main ==
    /\ script = "run"
    /\ pc = "main"
    /\ IF args.setup
       THEN /\ launched' = Append(launched, "python setup.py")
            /\ pc' = "return"
       ELSE IF ~requirements
       THEN /\ pc' = "exit 1"
            /\ UNCHANGED launched
       ELSE IF ~R_check_config(config_json)
       THEN /\ pc' = "exit 1"
            /\ UNCHANGED launched
       ELSE /\ pc' = "checked"
            /\ UNCHANGED launched
    /\ UNCHANGED <<script, args, requirements, start_vars, run_vars>>

\* main, lines 79-89: the directories are made and the applier is run
R_main_launch ==
    /\ script = "run"
    /\ pc = "checked"
    /\ launched' = Append(launched, IF args.version = "basic"
                                     THEN "python naukri_job_applier.py"
                                     ELSE "python enhanced_naukri_applier.py")
    /\ pc' = "return"
    /\ UNCHANGED <<script, args, requirements, start_vars, run_vars>>

\* ------------------------------------------------------------ the run
A_Next ==
    \/ \E url \in Links, o \in A_Obs : A_search_and_apply(url, o)
    \/ A_main

vars == <<script, pc, served, last, A_vars, B_vars, E_vars, T_vars, S_vars,
          start_vars, launch_vars>>

Init ==
    /\ script \in Scripts
    /\ pc = CASE script = "apply_naukri_jobs" -> "loop"
              [] script = "naukri_job_applier" -> "while"
              [] script = "enhanced_naukri_applier" -> "search"
              [] script = "naukri_auto_apply" -> "run"
              [] OTHER -> "cards"
    /\ served = 0
    /\ last = NoCall
    /\ A_Init /\ B_Init /\ E_Init /\ T_Init /\ S_Init
    /\ Started /\ NotLaunched

Next ==
    \/ (A_Next /\ UNCHANGED <<script, start_vars, launch_vars, B_vars, E_vars, T_vars, S_vars>>)
    \/ (B_Next /\ UNCHANGED <<script, start_vars, launch_vars, A_vars, E_vars, T_vars, S_vars>>)
    \/ (E_Next /\ UNCHANGED <<script, start_vars, launch_vars, A_vars, B_vars, T_vars, S_vars>>)
    \/ (T_Next /\ UNCHANGED <<script, start_vars, launch_vars, A_vars, B_vars, E_vars, S_vars>>)
    \/ (S_Next /\ UNCHANGED <<script, start_vars, launch_vars, A_vars, B_vars, E_vars, T_vars>>)

Spec == Init /\ [][Next]_vars

\* one script alone
SpecA == (Init /\ script = "apply_naukri_jobs")
            /\ [][A_Next /\ UNCHANGED <<script, start_vars, launch_vars, B_vars, E_vars, T_vars, S_vars>>]_vars
SpecB == (Init /\ script = "naukri_job_applier")
            /\ [][B_Next /\ UNCHANGED <<script, start_vars, launch_vars, A_vars, E_vars, T_vars, S_vars>>]_vars
SpecE == (Init /\ script = "enhanced_naukri_applier")
            /\ [][E_Next /\ UNCHANGED <<script, start_vars, launch_vars, A_vars, B_vars, T_vars, S_vars>>]_vars
SpecT == (Init /\ script = "naukri_auto_apply")
            /\ [][T_Next /\ UNCHANGED <<script, start_vars, launch_vars, A_vars, B_vars, E_vars, S_vars>>]_vars
SpecS == (Init /\ script = "scripts_naukri_auto_apply")
            /\ [][S_Next /\ UNCHANGED <<script, start_vars, launch_vars, A_vars, B_vars, E_vars, T_vars>>]_vars

\* the start of the three scripts that take the credentials from the
\* environment, up to the call of login
InitStart ==
    /\ script \in {"apply_naukri_jobs", "naukri_auto_apply", "scripts_naukri_auto_apply"}
    /\ pc = "boot"
    /\ served = 0
    /\ last = NoCall
    /\ A_Init /\ B_Init /\ E_Init /\ T_Init /\ S_Init
    /\ T_applied_csv = <<>> /\ T_max_applications_per_run = 1 /\ S_max_jobs = 0
    /\ environ \in Environs
    /\ config_json \in ConfigFiles
    /\ config_json.kind # "not_object"
    /\ script # "naukri_auto_apply" => config_json.kind = "absent"
    /\ driver_started = FALSE
    /\ login_attempted = FALSE
    /\ NotLaunched

NextStart ==
    \/ A_main_env
    \/ A_main_login
    \/ T_init
    \/ T_run_login
    \/ S_main_env
    \/ S_main_login

SpecStart == InitStart /\ [][NextStart]_vars

\* run.py from its start
InitLaunch ==
    /\ script = "run"
    /\ pc = "main"
    /\ served = 0
    /\ last = NoCall
    /\ A_Init /\ B_Init /\ E_Init /\ T_Init /\ S_Init
    /\ environ = [NAUKRI_EMAIL |-> "unset", NAUKRI_PASSWORD |-> "unset"]
    /\ config_json \in ConfigFiles
    /\ driver_started = FALSE
    /\ login_attempted = FALSE
    /\ args \in Args
    /\ requirements \in BOOLEAN
    /\ launched = <<>>

NextLaunch ==
    \/ R_main
    \/ R_main_launch

SpecLaunch == InitLaunch /\ [][NextLaunch]_vars

\* _requires_additional_details called on one page
InitDetails ==
    /\ script = "naukri_job_applier"
    /\ pc = "_requires_additional_details"
    /\ served = 0
    /\ last \in {[called |-> FALSE, url |-> page] : page \in Pages}
    /\ A_Init /\ B_Init /\ E_Init /\ T_Init /\ S_Init
    /\ B_max_applications = 1 /\ B_max_pages = 1
    /\ Started /\ NotLaunched

SpecDetails == InitDetails /\ [][B_ask_requires_additional_details]_vars

\* is_external_application asked about one URL
InitExt ==
    /\ script = "enhanced_naukri_applier"
    /\ pc = "is_external_application"
    /\ served = 0
    /\ last \in {[called |-> FALSE, url |-> u] : u \in AllUrls}
    /\ A_Init /\ B_Init /\ E_Init /\ T_Init /\ S_Init
    /\ E_applied_csv = <<>> /\ E_max_applications_per_run = 1
    /\ Started /\ NotLaunched

SpecExt == InitExt /\ [][E_ask_is_external_application]_vars

\* the two scripts whose run takes an application limit checked in its loops
SpecBT == (Init /\ script \in {"naukri_job_applier", "naukri_auto_apply"})
            /\ [][\/ B_Next /\ UNCHANGED <<script, start_vars, launch_vars, A_vars, E_vars, T_vars, S_vars>>
                  \/ T_Next /\ UNCHANGED <<script, start_vars, launch_vars, A_vars, B_vars, E_vars, S_vars>>]_vars

\* ------------------------------------------------------------ the claims
\* The posting handled last, as each script holds it.
IsA == script = "apply_naukri_jobs"
IsB == script = "naukri_job_applier"
IsE == script = "enhanced_naukri_applier"
IsT == script = "naukri_auto_apply"
IsS == script = "scripts_naukri_auto_apply"

\* the script got to handle the posting (it was not skipped as seen before)
Handled ==
    /\ last.called
    /\ IsT => ~last.was_applied

\* the lengths of the script's applied, shortlisted and failed records now
Now ==
    CASE IsA -> [applied |-> A_applied_count, shortlisted |-> Len(A_shortlisted),
                 failed |-> 0]
      [] IsB -> [applied |-> Len(B_applied_jobs), shortlisted |-> Len(B_shortlisted_jobs),
                 failed |-> Len(B_failed_jobs)]
      [] IsE -> [applied |-> Len(E_applied_csv), shortlisted |-> Len(E_shortlisted_jobs),
                 failed |-> Len(E_failed_applications)]
      [] IsT -> [applied |-> Len(T_applied_csv), shortlisted |-> Len(T_shortlisted_jobs),
                 failed |-> 0]
      [] OTHER -> [applied |-> Len(S_applied_rows), shortlisted |-> Len(S_shortlisted_rows),
                   failed |-> 0]

\* the posting the script shortlisted last
LastShortlisted ==
    CASE IsA -> Last(A_shortlisted)
      [] IsB -> Last(B_shortlisted_jobs)
      [] IsE -> Last(E_shortlisted_jobs).url
      [] IsT -> Last(T_shortlisted_jobs)
      [] OTHER -> Last(S_shortlisted_rows)

\* the last posting went to the shortlist and to no other record
ShortlistedOnly ==
    /\ Now.shortlisted = last.n.shortlisted + 1
    /\ LastShortlisted = last.url
    /\ Now.applied = last.n.applied
    /\ Now.failed = last.n.failed

\* the script looked for an apply control on the detail page and found none
\* it could use
NoApplyControl ==
    /\ Handled
    /\ CASE IsA -> last.obs.card /\ ~last.obs.apply
         [] IsB -> B_reaches_button(last.obs) /\ ~last.obs.button
         [] IsE -> E_reaches_button(E_extract_job_details(last.url), last.obs)
                      /\ ~last.obs.button
         [] IsT -> T_reaches_button(last.obs) /\ last.obs.control # "usable"
         [] OTHER -> last.obs.page /\ last.obs.goto /\ last.obs.query
                        /\ last.obs.buttons = <<>>

\* C1: in every applier script, a posting on whose detail page no usable apply
\* control is found is recorded in the script's shortlist and in no other
\* outcome list.
Claim_C1 == NoApplyControl => ShortlistedOnly

\* the script detected the posting as an external application, before the
\* Apply click or as a redirect after it
ExternalDetected ==
    /\ Handled
    /\ CASE IsA -> FALSE
         [] IsB -> last.obs.exc # "open" /\ last.obs.external
         [] IsE -> /\ last.obs.open
                   /\ \/ E_extract_job_details(last.url).is_external
                      \/ E_is_external_application(last.obs.loaded)[1]
                      \/ last.obs.click /\ E_is_external_application(last.obs.after)[1]
         [] IsT -> last.obs.external
         [] OTHER -> \/ S_clicks(last.obs) /\ last.obs.external
                     \/ /\ ~S_clicks(last.obs)
                        /\ \E k \in 1..Len(last.obs.buttons) :
                              last.obs.buttons[k] = "company"

\* C2: in every applier script, a posting detected as an external application,
\* before the Apply click or as an external redirect after it, is recorded in
\* the shortlist and never as applied or as failed.
Claim_C2 == ExternalDetected => ShortlistedOnly

\* the application of the posting shows a form with two or more input fields
Questionnaire ==
    /\ Handled
    /\ CASE IsA -> FALSE
         [] IsB -> last.obs.fields >= 2
         [] IsE -> last.obs.fields >= 2
         [] IsT -> last.obs.fields >= 2
         [] OTHER -> last.obs.inputs >= 2

\* C3: in every applier script, a posting whose application shows a form with
\* two or more input fields is recorded in the shortlist, and is not submitted
\* automatically or counted as applied.
Claim_C3 == Questionnaire => (ShortlistedOnly /\ ~last.submitted)

\* the run is over: it finished, or an exception ended it
RunEnded == pc \in {"done", "crashed"}

\* the rows of the shortlist file, and the in-memory shortlist
ShortlistFile ==
    CASE IsA -> A_SHORTLIST_FILE
      [] IsB -> B_files.shortlisted
      [] IsE -> E_files.shortlisted
      [] IsT -> T_shortlisted_csv
      [] OTHER -> S_files.shortlist

Shortlist ==
    CASE IsA -> A_shortlisted
      [] IsB -> B_shortlisted_jobs
      [] IsE -> E_shortlisted_jobs
      [] IsT -> T_shortlisted_jobs
      [] OTHER -> S_shortlisted_rows

\* C4: in every applier script, every job added to the in-memory shortlist
\* during a run is in the shortlist file when the run ends, also when a later
\* step raised an exception.
Claim_C4 == RunEnded => ShortlistFile = Shortlist

\* the driver raised an exception while the script handled the last posting
RaisedInPosting ==
    /\ last.called
    /\ CASE IsA -> ~last.obs.card \/ ~last.obs.apply \/ ~last.obs.submit \/ ~last.obs.close
         [] IsB -> last.obs.exc # "none"
         [] IsE -> ~last.obs.open \/ (last.obs.button /\ ~last.obs.click)
         [] IsT -> last.obs.control # "none" /\ ~last.obs.click
         [] OTHER -> \/ ~last.obs.page \/ ~last.obs.goto \/ ~last.obs.query
                     \/ ~last.obs.close
                     \/ \E k \in 1..Len(last.obs.buttons) : last.obs.buttons[k] = "stuck"

\* C5: in every applier script, an exception raised while one posting is
\* processed does not end the run: the loop goes on with the next posting.
Claim_C5 == RaisedInPosting => (last.ret # "raised" /\ pc # "crashed")

\* a step of run that calls apply_to_job (neither the break of line 488 nor the
\* continue of line 492)
B_calls_apply_to_job ==
    /\ IsB /\ pc = "for" /\ pc' = "for"
    /\ served' = served + 1
    /\ last'.called

\* C6: in naukri_job_applier.py every call of apply_to_job returns one of
\* 'applied', 'shortlisted', 'failed' and appends the job to the list the
\* returned value names; the other two lists are unchanged.
Claim_C6 ==
    [][ B_calls_apply_to_job =>
          /\ last'.ret \in {"applied", "shortlisted", "failed"}
          /\ B_applied_jobs' = IF last'.ret = "applied"
                               THEN Append(B_applied_jobs, last'.url) ELSE B_applied_jobs
          /\ B_shortlisted_jobs' = IF last'.ret = "shortlisted"
                                   THEN Append(B_shortlisted_jobs, last'.url)
                                   ELSE B_shortlisted_jobs
          /\ B_failed_jobs' = IF last'.ret = "failed"
                              THEN Append(B_failed_jobs, last'.url) ELSE B_failed_jobs ]_vars

\* a call that returned 'failed' for a popup that could not be handled, after a
\* call that shortlisted
Witness_C6 ==
    /\ IsB /\ last.called
    /\ last.ret = "failed" /\ last.obs.button /\ last.obs.exc = "none"
    /\ Len(B_shortlisted_jobs) = 1 /\ Last(B_failed_jobs) = last.url

\* C7: in scripts/naukri_auto_apply.py, with max_jobs > 0, the number of job
\* links processed in a run never exceeds max_jobs, whatever the outcomes.
Claim_C7 == (IsS /\ S_max_jobs > 0) => S_total_processed <= S_max_jobs

\* C8: in naukri_auto_apply.py a job whose job_id is in applied_jobs, loaded
\* from applied_jobs.csv or added earlier in the run, is skipped: apply_to_job
\* returns False, clicks no apply control and writes to neither CSV file.
Claim_C8 ==
    (IsT /\ last.called /\ last.was_applied) =>
        /\ last.ret = FALSE
        /\ ~last.clicked
        /\ Len(T_applied_csv) = last.n.applied
        /\ Len(T_shortlisted_csv) = last.n.shortlisted
        /\ Len(T_shortlisted_jobs) = last.n.shortlisted

\* a job applied to earlier in this run comes up again, on a page that would
\* let the script apply
Witness_C8 ==
    /\ IsT /\ last.called /\ last.was_applied
    /\ T_applications_made = 1 /\ Last(T_applied_csv) = last.url
    /\ last.obs.control = "usable" /\ last.obs.click /\ last.obs.success

\* C9: in enhanced_naukri_applier.py apply_to_job never submits an application
\* for a job URL that is already in applied_jobs, also when the URL was scraped
\* more than once.
Claim_C9 ==
    (IsE /\ last.called /\ last.was_applied) => (~last.clicked /\ ~last.submitted)

\* C10: in enhanced_naukri_applier.py, when handle_application_form returns
\* True, apply_to_job returns True, the job's status is 'applied', a row is
\* appended to output/applied_jobs.csv and the job is not in
\* failed_applications.
Claim_C10 ==
    (IsE /\ last.called /\ last.obs.click /\ E_handle_application_form(last.obs)) =>
        /\ last.ret = TRUE
        /\ Len(E_applied_csv) = last.n.applied + 1
        /\ Last(E_applied_csv) = last.url
        /\ Len(E_failed_applications) = last.n.failed

\* C11: in naukri_job_applier.py and in the top-level naukri_auto_apply.py the
\* number of successful applications of a run never exceeds the configured
\* maximum (every application recorded is counted, and the count stays within
\* the maximum), and naukri_job_applier.run never works on a result page
\* beyond the max_pages-th.
Claim_C11 ==
    /\ [](IsB => /\ Len(B_applied_jobs) = B_applications_count
                  /\ B_applications_count <= B_max_applications
                  /\ pc \in {"for", "nav"} => B_page_count + 1 <= B_max_pages)
    /\ [](IsT => T_applications_made <= T_max_applications_per_run)
    /\ [][ (IsT /\ T_applied_csv' # T_applied_csv) =>
              /\ T_applied_csv' = Append(T_applied_csv, last'.url)
              /\ T_applications_made' = T_applications_made + 1 ]_vars

\* naukri_job_applier.run stopped at the application limit on its last allowed
\* page, with postings left on the site
Witness_C11 ==
    /\ IsB /\ pc = "save"
    /\ B_max_applications = 1 /\ Len(B_applied_jobs) = 1
    /\ B_page_count + 1 = B_max_pages
    /\ served < MaxJobs

\* C12: in enhanced_naukri_applier.py the number of jobs applied to in one run
\* never exceeds max_applications_per_run, and at most 3 result pages are
\* scraped.
Claim_C12 ==
    IsE => /\ E_submissions <= E_max_applications_per_run
           /\ E_page <= E_max_pages

IsStart == script \in {"apply_naukri_jobs", "naukri_auto_apply", "scripts_naukri_auto_apply"}

\* NAUKRI_EMAIL or NAUKRI_PASSWORD is missing or empty in the environment
EnvMissing == falsy(environ.NAUKRI_EMAIL) \/ falsy(environ.NAUKRI_PASSWORD)

\* the error each script stops with
StartError ==
    CASE IsA -> "exit 1"
      [] IsT -> "ValueError"
      [] OTHER -> "return 2"

\* the script has stopped with its error, or has not moved yet, and has
\* started no browser or driver and attempted no login
StoppedBeforeDriver ==
    /\ pc \in {"boot", StartError}
    /\ ~driver_started
    /\ ~login_attempted

CredentialsMissing ==
    IF IsT
    THEN \/ falsy(T_load_config(environ, config_json).email)
         \/ falsy(T_load_config(environ, config_json).password)
    ELSE EnvMissing

IsR == script = "run"

\* config.json exists, parses as JSON, has a non-empty 'email' and 'password',
\* and the email is not the placeholder
ConfigValid ==
    /\ config_json.kind = "object"
    /\ config_json.email \notin {"missing", ""}
    /\ config_json.password \notin {"missing", ""}
    /\ config_json.email # "your_email@example.com"

\* an applier script was launched
AppliersLaunched ==
    \E k \in 1..Len(launched) :
        launched[k] \in {"python naukri_job_applier.py", "python enhanced_naukri_applier.py"}

\* C14: in run.py, when not in --setup mode, main exits with status 1 and
\* launches neither applier script whenever check_requirements or check_config
\* returns False; check_config returns True only if the config file exists,
\* parses as JSON, has non-empty 'email' and 'password', and the email is not
\* the placeholder 'your_email@example.com'.
Claim_C14 ==
    IsR =>
        /\ (pc # "main" /\ ~args.setup /\ (~requirements \/ ~ConfigValid)) =>
               (pc = "exit 1" /\ launched = <<>>)
        /\ R_check_config(config_json) => ConfigValid
        /\ AppliersLaunched => (~args.setup /\ requirements /\ ConfigValid)

\* main exited with status 1 because config.json still holds the placeholder
\* email, everything else being in order
Witness_C14 ==
    /\ IsR /\ pc = "exit 1"
    /\ ~args.setup /\ requirements
    /\ config_json.kind = "object"
    /\ config_json.email = "your_email@example.com"
    /\ config_json.password = "set"
    /\ launched = <<>>

\* the four rules in the words of the claim
PatternMatches(u) ==
    \E k \in 1..Len(external_patterns) : re_search(external_patterns[k], u)

HostIsNaukri(u) ==
    ~urlparse_raises(u) /\ lower(u.netloc) \in {"naukri.com", "www.naukri.com"}

HasAtsDomain(u) ==
    \E d \in external_domains : \E i \in 1..Len(Text(u)) : d \in Marks(Text(u)[i])

HasRedirectParam(u) ==
    \E i \in 1..Len(u.query) : u.query[i][1] \in {"redirect", "external"}

\* the reason of the first rule that fires, "" when none does
FirstRule(u) ==
    IF PatternMatches(u) THEN "URL pattern match"
    ELSE IF ~HostIsNaukri(u) THEN "External domain"
    ELSE IF HasAtsDomain(u) THEN "External ATS domain"
    ELSE IF HasRedirectParam(u) THEN "Redirect parameter detected"
    ELSE ""

\* C15: in enhanced_naukri_applier.py is_external_application(url) returns
\* (False, "") exactly when no external URL pattern matches, the host is
\* naukri.com or www.naukri.com, no listed ATS domain occurs in the URL and the
\* query has neither a 'redirect' nor an 'external' parameter; otherwise it
\* returns True with the reason of the first rule that fires, in the order
\* pattern, host, ATS domain, query parameter.
Claim_C15 ==
    (IsE /\ pc = "returned" /\ last.called) =>
        /\ last.ret[2] = FirstRule(last.url)
        /\ last.ret[1] = (FirstRule(last.url) # "")

\* the body text of the page holds one of the listed phrases
PageHasPhrase(page) ==
    \E t \in page.text : \E ind \in B_additional_indicators : ind \in Holds(t)

\* the text-input and textarea fields of the page
PageFields(page) == page.text_inputs + page.textareas

AskedDetails == IsB /\ pc = "returned" /\ last.called

\* C16: in naukri_job_applier.py _requires_additional_details returns True if
\* and only if the page body text contains one of the listed questionnaire
\* phrases or the page has more than 5 text-input/textarea fields; a page with
\* no such phrase and exactly 5 fields is not flagged, one with 6 is.
Claim_C16 ==
    AskedDetails =>
        (last.ret <=> (PageHasPhrase(last.url) \/ PageFields(last.url) > 5))

\* C16, amended: _requires_additional_details returns True if and only if the
\* body text is read without error and contains one of the listed phrases, or
\* no phrase is found and the fields are counted without error and are more
\* than 5; when the driver raises it returns False.  Without errors, a page
\* with no phrase and exactly 5 fields is not flagged, one with 6 is.
Claim_C16_amended ==
    AskedDetails =>
        (last.ret <=>
            /\ last.url.raises # "body"
            /\ \/ PageHasPhrase(last.url)
               \/ last.url.raises = "none" /\ PageFields(last.url) > 5)

\* a page without phrase and with exactly 5 fields (4 text inputs and a
\* textarea) was asked about and not flagged
Witness_C16 ==
    /\ AskedDetails
    /\ last.url.raises = "none" /\ ~PageHasPhrase(last.url)
    /\ last.url.text_inputs = 4 /\ last.url.textareas = 1
    /\ last.ret = FALSE

====
